---- MODULE Spec2Model ----
(***************************************************************************)
(* Namespace cleaner: the two-phase reconciliation of                      *)
(* internal/cleaner/processor.go (ProcessNamespaces), with the Cleaner     *)
(* that applies label / unlabel / delete to the namespace store, the       *)
(* domain validator and directory lookup of internal/clients, and the      *)
(* run statistics of pkg/stats.                                            *)
(*                                                                         *)
(* Instants are integer ticks (TicksPerSec ticks to the second, standing   *)
(* for Go's nanoseconds).  A delete-at label written with labelTimeLayout  *)
(* "2006-01-02_15-04-05Z" keeps the wall-clock second of the instant in    *)
(* the location of `now` and nothing else: no fraction of a second, no     *)
(* zone (the Z is a literal).  A label is a record: kind "none" (absent),  *)
(* kind "stamp" (a string of that layout, wall = its wall-clock second)    *)
(* or kind "text" (any other string).                                      *)
(***************************************************************************)
EXTENDS Integers, Sequences, FiniteSets, TLC

\* ------------------------------------------------------------------ bounds
MaxRuns == 2
MaxFaults == 1
TicksPerSec == 2
MaxEmailLen == 5
MaxEnvLen == 3

\* ------------------------------------------------------------------- time
Day == 24 * 3600 * TicksPerSec
Epoch == 10 * Day
UTC == 0
West == 0 - 5 * 3600

\* now.Add(d).Format(labelTimeLayout): the wall-clock second of t in the
\* location of t (offset loc seconds from UTC), fraction and zone dropped.
FormatLabel(t, loc) ==
    [kind |-> "stamp", wall |-> (t \div TicksPerSec) + loc]

NoLabel == [kind |-> "none", wall |-> 0]
BadLabel == [kind |-> "text", wall |-> 0]

\* time.ParseInLocation(labelTimeLayout, v, time.UTC)
ParseInLocation(v) ==
    IF v.kind = "stamp"
    THEN [err |-> FALSE, t |-> v.wall * TicksPerSec]
    ELSE [err |-> TRUE, t |-> 0]

After_OrEqual(t, u) == t >= u

\* time.Time.After
After(t, u) == t > u

\* now.Add(time.Duration(cfg.GracePeriod) * 24 * time.Hour).Format(...)
GraceDate(t, grace, loc) == FormatLabel(t + grace * Day, loc)

\* The label values of cmd/namespace-cleaner/main.go are strings: text is
\* the sequence of their characters, each run of digits of a date or time
\* field written as the one character "D", and wall the UTC wall-clock
\* second the digits spell.
labelTimeLayout == <<"D", "-", "D", "-", "D", "_", "D", "-", "D", "-", "D", "Z">>
RFC3339 == <<"D", "-", "D", "-", "D", "T", "D", ":", "D", ":", "D", "Z">>
NoValue == [text |-> <<>>, wall |-> 0]

\* t.UTC().Format(layout)
Format(t, layout) == [text |-> layout, wall |-> t \div TicksPerSec]

\* time.Parse(layout, v): the text must match the layout, separators and
\* all.
Parse(layout, v) ==
    IF v.text = layout
    THEN [err |-> FALSE, t |-> v.wall * TicksPerSec]
    ELSE [err |-> TRUE, t |-> 0]

\* ---------------------------------------------------------------- strings
\* A string is a sequence of one-character strings.
RECURSIVE Split(_, _)
Split(s, sep) ==
    IF \A i \in 1..Len(s) : s[i] # sep
    THEN <<s>>
    ELSE LET i == CHOOSE j \in 1..Len(s) :
                      s[j] = sep /\ \A k \in 1..(j - 1) : s[k] # sep
         IN <<SubSeq(s, 1, i - 1)>> \o Split(SubSeq(s, i + 1, Len(s)), sep)

\* strings.Replace(s, old, new, n) for a one-character old: the first n
\* occurrences, all of them when n < 0.
RECURSIVE Replace(_, _, _, _)
Replace(s, old, new, n) ==
    IF s = <<>> \/ n = 0 THEN s
    ELSE IF Head(s) = old
    THEN <<new>> \o Replace(Tail(s), old, new, n - 1)
    ELSE <<Head(s)>> \o Replace(Tail(s), old, new, n)

HasSuffix(s, suffix) ==
    /\ Len(suffix) <= Len(s)
    /\ SubSeq(s, Len(s) - Len(suffix) + 1, Len(s)) = suffix

ValidDomain(email, domains) ==
    LET parts == Split(email, "@")
    IN /\ Len(parts) = 2
       /\ \E i \in 1..Len(domains) :
              \/ parts[2] = domains[i]
              \/ HasSuffix(parts[2], <<".">> \o domains[i])

UserEmail == <<"u", "@", "a", ".", "c">>
GhostEmail == <<"g", "@", "a", ".", "c">>
EvilEmail == <<"u", "@", "e", ".", "c">>
AllowedDomains == << <<"a", ".", "c">> >>
TestUsers == {UserEmail}

\* ------------------------------------------------------------------ store
\* The namespaces of the cluster, in the order the API server lists them.
NameOrder == <<"ns-a", "ns-b">>
Names == {NameOrder[i] : i \in 1..Len(NameOrder)}

NoOwner == [found |-> FALSE, email |-> <<>>]
Owner(e) == [found |-> TRUE, email |-> e]

Gone == [exists |-> FALSE, partOf |-> FALSE, owner |-> NoOwner,
         label |-> NoLabel, finalizers |-> FALSE]

Namespace(p, o, l) ==
    [exists |-> TRUE, partOf |-> p, owner |-> o, label |-> l,
     finalizers |-> TRUE]

\* What a List call returns: a copy of each selected object, in name order.
Snapshot(st, names) ==
    [i \in 1..Len(names) |-> [name |-> names[i], obj |-> st[names[i]]]]

Phase1Selector_LabeledToo(st, n) ==
    st[n].exists /\ st[n].partOf

Phase1Selector_AnyNamespace(st, n) ==
    st[n].exists /\ st[n].label.kind = "none"

\* LabelSelector "app.kubernetes.io/part-of=kubeflow-profile,!namespace-cleaner/delete-at"
Phase1Selector(st, n) ==
    st[n].exists /\ st[n].partOf /\ st[n].label.kind = "none"

Phase2Selector_ManagedOnly(st, n) ==
    st[n].exists /\ st[n].partOf /\ st[n].label.kind # "none"

\* LabelSelector "namespace-cleaner/delete-at"
Phase2Selector(st, n) ==
    st[n].exists /\ st[n].label.kind # "none"

ListPhase1(st) ==
    Snapshot(st, SelectSeq(NameOrder, LAMBDA n : Phase1Selector(st, n)))

ListPhase2(st) ==
    Snapshot(st, SelectSeq(NameOrder, LAMBDA n : Phase2Selector(st, n)))

\* ---------------------------------------------------------------- cleaner
\* Each operation returns the store after it, whether it returned an error,
\* and the requests it sent to the API server.  ok says whether the API
\* server carries the request out.
Request(verb, n, ok) == [verb |-> verb, name |-> n, ok |-> ok]

LabelNamespace_NoDryRun(st, dryRun, n, graceDate, ok) ==
    LET done == ok /\ st[n].exists
    IN [store |-> IF done THEN [st EXCEPT ![n].label = graceDate] ELSE st,
        err |-> ~ done,
        reqs |-> <<Request("patch-label", n, done)>>]

LabelNamespace(st, dryRun, n, graceDate, ok) ==
    IF dryRun
    THEN [store |-> st, err |-> FALSE, reqs |-> <<>>]
    ELSE LET done == ok /\ st[n].exists
         IN [store |-> IF done THEN [st EXCEPT ![n].label = graceDate] ELSE st,
             err |-> ~ done,
             reqs |-> <<Request("patch-label", n, done)>>]

RemoveLabel_ReplaceLabels(st, dryRun, n, ok) ==
    IF dryRun
    THEN [store |-> st, err |-> FALSE, reqs |-> <<>>]
    ELSE LET done == ok /\ st[n].exists
         IN [store |-> IF done
                       THEN [st EXCEPT ![n].label = NoLabel, ![n].partOf = FALSE]
                       ELSE st,
             err |-> ~ done,
             reqs |-> <<Request("patch-unlabel", n, done)>>]

RemoveLabel(st, dryRun, n, ok) ==
    IF dryRun
    THEN [store |-> st, err |-> FALSE, reqs |-> <<>>]
    ELSE LET done == ok /\ st[n].exists
         IN [store |-> IF done THEN [st EXCEPT ![n].label = NoLabel] ELSE st,
             err |-> ~ done,
             reqs |-> <<Request("patch-unlabel", n, done)>>]

DeleteNamespace_NoDryRun(st, dryRun, n, testMode, fail) ==
    LET done == st[n].exists /\ fail = "none"
    IN [store |-> IF done THEN [st EXCEPT ![n] = Gone] ELSE st,
        err |-> ~ done,
        reqs |-> <<Request("delete", n, done)>>]

DeleteNamespace_IgnoreUpdateError(st, dryRun, n, testMode, fail) ==
    IF dryRun
    THEN [store |-> st, err |-> FALSE, reqs |-> <<>>]
    ELSE LET here == st[n].exists
             getOk == here /\ fail # "get"
             updOk == here /\ fail # "update"
             delOk == here /\ fail # "delete"
             mid == IF testMode /\ updOk
                    THEN [st EXCEPT ![n].finalizers = FALSE] ELSE st
         IN IF testMode /\ ~ getOk
            THEN [store |-> st, err |-> TRUE,
                  reqs |-> <<Request("get", n, FALSE)>>]
            ELSE [store |-> IF delOk THEN [mid EXCEPT ![n] = Gone] ELSE mid,
                  err |-> ~ delOk,
                  reqs |-> (IF testMode
                            THEN <<Request("get", n, TRUE),
                                   Request("update", n, updOk)>>
                            ELSE <<>>) \o <<Request("delete", n, delOk)>>]

\* fail names the request that fails: "none", "get", "update" or "delete".
DeleteNamespace(st, dryRun, n, testMode, fail) ==
    IF dryRun
    THEN [store |-> st, err |-> FALSE, reqs |-> <<>>]
    ELSE LET here == st[n].exists
             getOk == here /\ fail # "get"
             updOk == here /\ fail # "update"
             delOk == here /\ fail # "delete"
             cleared == [st EXCEPT ![n].finalizers = FALSE]
         IN IF testMode /\ ~ getOk
            THEN [store |-> st, err |-> TRUE,
                  reqs |-> <<Request("get", n, FALSE)>>]
            ELSE IF testMode /\ ~ updOk
            THEN [store |-> st, err |-> TRUE,
                  reqs |-> <<Request("get", n, TRUE),
                             Request("update", n, FALSE)>>]
            ELSE LET pre == IF testMode
                            THEN <<Request("get", n, TRUE),
                                   Request("update", n, TRUE)>>
                            ELSE <<>>
                     mid == IF testMode THEN cleared ELSE st
                 IN [store |-> IF delOk THEN [mid EXCEPT ![n] = Gone] ELSE mid,
                     err |-> ~ delOk,
                     reqs |-> pre \o <<Request("delete", n, delOk)>>]

DeleteFailures(testMode) ==
    IF testMode THEN {"none", "get", "update", "delete"} ELSE {"none", "delete"}

\* -------------------------------------------------------------- directory
\* What the directory service can answer a query for email: that it has
\* the user, that it has not (an error isNotFoundError recognises), or any
\* other error.  In test mode the service is not asked.
LookupOutcomes(c, dir, email) ==
    IF c.TestMode
    THEN {"unasked"}
    ELSE {IF email \in dir THEN "found" ELSE "notfound", "error"}

defaultUserExists_AlwaysQuery(c, outcome, email) == outcome = "found"

\* outcome is the answer of the directory service, "unasked" in test mode.
defaultUserExists(c, outcome, email) ==
    IF c.TestMode
    THEN email \in c.TestUsers
    ELSE outcome = "found"

\* ------------------------------------------------------------------ stats
ZeroStats ==
    [TotalNamespaces |-> 0, Labeled |-> 0, Deleted |-> 0, LabelsRemoved |-> 0,
     InvalidLabels |-> 0, SkippedMissingOwner |-> 0,
     SkippedInvalidDomain |-> 0, SkippedExistingUser |-> 0]

Inc(s, counter) == [s EXCEPT ![counter] = @ + 1]

\* ------------------------------------------------------------- evaluation
\* The evaluation of one listed namespace: the store and statistics after
\* it, the requests sent, the branch taken and the directory answer used
\* ("none" when the evaluation returned before the user check).
Outcome(st, s, reqs, branch, lookup) ==
    [store |-> st, stats |-> s, reqs |-> reqs, branch |-> branch,
     lookup |-> lookup]

processUnlabeledNamespace_UserFirst(st, c, ns, graceDate, s, lookup, ok1, ok2) ==
    IF ~ ns.obj.owner.found
    THEN Outcome(st, Inc(s, "SkippedMissingOwner"), <<>>, "missing-owner", "none")
    ELSE IF defaultUserExists(c, lookup, ns.obj.owner.email)
    THEN Outcome(st, Inc(s, "SkippedExistingUser"), <<>>, "existing-user", lookup)
    ELSE IF ~ ValidDomain(ns.obj.owner.email, c.AllowedDomains)
    THEN Outcome(st, Inc(s, "SkippedInvalidDomain"), <<>>, "invalid-domain", lookup)
    ELSE LET l == LabelNamespace(st, c.DryRun, ns.name, graceDate, ok1)
             r == RemoveLabel(l.store, c.DryRun, ns.name, ok2)
         IN Outcome(r.store,
                    IF l.err THEN s ELSE Inc(s, "Labeled"),
                    l.reqs \o r.reqs, "label", lookup)

processUnlabeledNamespace_NoDomainCheck(st, c, ns, graceDate, s, lookup, ok1, ok2) ==
    IF ~ ns.obj.owner.found
    THEN Outcome(st, Inc(s, "SkippedMissingOwner"), <<>>, "missing-owner", "none")
    ELSE IF defaultUserExists(c, lookup, ns.obj.owner.email)
    THEN Outcome(st, Inc(s, "SkippedExistingUser"), <<>>, "existing-user", lookup)
    ELSE LET l == LabelNamespace(st, c.DryRun, ns.name, graceDate, ok1)
             r == RemoveLabel(l.store, c.DryRun, ns.name, ok2)
         IN Outcome(r.store,
                    IF l.err THEN s ELSE Inc(s, "Labeled"),
                    l.reqs \o r.reqs, "label", lookup)

processUnlabeledNamespace_CountRemoval(st, c, ns, graceDate, s, lookup, ok1, ok2) ==
    IF ~ ns.obj.owner.found
    THEN Outcome(st, Inc(s, "SkippedMissingOwner"), <<>>, "missing-owner", "none")
    ELSE IF ~ ValidDomain(ns.obj.owner.email, c.AllowedDomains)
    THEN Outcome(st, Inc(s, "SkippedInvalidDomain"), <<>>, "invalid-domain", "none")
    ELSE IF defaultUserExists(c, lookup, ns.obj.owner.email)
    THEN Outcome(st, Inc(s, "SkippedExistingUser"), <<>>, "existing-user", lookup)
    ELSE LET l == LabelNamespace(st, c.DryRun, ns.name, graceDate, ok1)
             r == RemoveLabel(l.store, c.DryRun, ns.name, ok2)
         IN Outcome(r.store,
                    LET t == IF l.err THEN s ELSE Inc(s, "Labeled")
                    IN IF r.err THEN t ELSE Inc(t, "LabelsRemoved"),
                    l.reqs \o r.reqs, "label", lookup)

processUnlabeledNamespace(st, c, ns, graceDate, s, lookup, ok1, ok2) ==
    IF ~ ns.obj.owner.found
    THEN Outcome(st, Inc(s, "SkippedMissingOwner"), <<>>, "missing-owner", "none")
    ELSE IF ~ ValidDomain(ns.obj.owner.email, c.AllowedDomains)
    THEN Outcome(st, Inc(s, "SkippedInvalidDomain"), <<>>, "invalid-domain", "none")
    ELSE IF defaultUserExists(c, lookup, ns.obj.owner.email)
    THEN Outcome(st, Inc(s, "SkippedExistingUser"), <<>>, "existing-user", lookup)
    ELSE LET l == LabelNamespace(st, c.DryRun, ns.name, graceDate, ok1)
             r == RemoveLabel(l.store, c.DryRun, ns.name, ok2)
         IN Outcome(r.store,
                    IF l.err THEN s ELSE Inc(s, "Labeled"),
                    l.reqs \o r.reqs, "label", lookup)

processLabeledNamespace_ExpiryFirst(st, c, ns, today, s, lookup, ok, fail) ==
    IF ~ ns.obj.owner.found
    THEN Outcome(st, Inc(s, "SkippedMissingOwner"), <<>>, "missing-owner", "none")
    ELSE LET d == ParseInLocation(ns.obj.label)
         IN IF d.err
            THEN Outcome(st, Inc(s, "InvalidLabels"), <<>>, "invalid-label", "none")
            ELSE IF ~ ValidDomain(ns.obj.owner.email, c.AllowedDomains)
            THEN Outcome(st, Inc(s, "SkippedInvalidDomain"), <<>>,
                         "invalid-domain", "none")
            ELSE IF After(today, d.t)
            THEN LET r == DeleteNamespace(st, c.DryRun, ns.name, c.TestMode, fail)
                 IN Outcome(r.store,
                            IF r.err THEN s ELSE Inc(s, "Deleted"),
                            r.reqs, "delete", "none")
            ELSE IF defaultUserExists(c, lookup, ns.obj.owner.email)
            THEN LET r == RemoveLabel(st, c.DryRun, ns.name, ok)
                 IN Outcome(r.store,
                            IF r.err THEN s ELSE Inc(s, "LabelsRemoved"),
                            r.reqs, "unlabel", lookup)
            ELSE Outcome(st, s, <<>>, "pending", lookup)

processLabeledNamespace_ParseFirst(st, c, ns, today, s, lookup, ok, fail) ==
    LET d == ParseInLocation(ns.obj.label)
    IN IF d.err
       THEN Outcome(st, Inc(s, "InvalidLabels"), <<>>, "invalid-label", "none")
       ELSE IF ~ ns.obj.owner.found
       THEN Outcome(st, Inc(s, "SkippedMissingOwner"), <<>>,
                    "missing-owner", "none")
       ELSE IF ~ ValidDomain(ns.obj.owner.email, c.AllowedDomains)
       THEN Outcome(st, Inc(s, "SkippedInvalidDomain"), <<>>,
                    "invalid-domain", "none")
       ELSE IF defaultUserExists(c, lookup, ns.obj.owner.email)
       THEN LET r == RemoveLabel(st, c.DryRun, ns.name, ok)
            IN Outcome(r.store,
                       IF r.err THEN s ELSE Inc(s, "LabelsRemoved"),
                       r.reqs, "unlabel", lookup)
       ELSE IF After(today, d.t)
       THEN LET r == DeleteNamespace(st, c.DryRun, ns.name, c.TestMode, fail)
            IN Outcome(r.store,
                       IF r.err THEN s ELSE Inc(s, "Deleted"),
                       r.reqs, "delete", lookup)
       ELSE Outcome(st, s, <<>>, "pending", lookup)

processLabeledNamespace_GraceFirst(st, c, ns, today, s, lookup, ok, fail) ==
    IF ~ ns.obj.owner.found
    THEN Outcome(st, Inc(s, "SkippedMissingOwner"), <<>>, "missing-owner", "none")
    ELSE LET d == ParseInLocation(ns.obj.label)
         IN IF d.err
            THEN Outcome(st, Inc(s, "InvalidLabels"), <<>>, "invalid-label", "none")
            ELSE IF ~ ValidDomain(ns.obj.owner.email, c.AllowedDomains)
            THEN Outcome(st, Inc(s, "SkippedInvalidDomain"), <<>>,
                         "invalid-domain", "none")
            ELSE IF ~ After(today, d.t)
            THEN Outcome(st, s, <<>>, "pending", "none")
            ELSE IF defaultUserExists(c, lookup, ns.obj.owner.email)
            THEN LET r == RemoveLabel(st, c.DryRun, ns.name, ok)
                 IN Outcome(r.store,
                            IF r.err THEN s ELSE Inc(s, "LabelsRemoved"),
                            r.reqs, "unlabel", lookup)
            ELSE LET r == DeleteNamespace(st, c.DryRun, ns.name, c.TestMode, fail)
                 IN Outcome(r.store,
                            IF r.err THEN s ELSE Inc(s, "Deleted"),
                            r.reqs, "delete", lookup)

processLabeledNamespace_NoDomainCheck(st, c, ns, today, s, lookup, ok, fail) ==
    IF ~ ns.obj.owner.found
    THEN Outcome(st, Inc(s, "SkippedMissingOwner"), <<>>, "missing-owner", "none")
    ELSE LET d == ParseInLocation(ns.obj.label)
         IN IF d.err
            THEN Outcome(st, Inc(s, "InvalidLabels"), <<>>, "invalid-label", "none")
            ELSE IF defaultUserExists(c, lookup, ns.obj.owner.email)
            THEN LET r == RemoveLabel(st, c.DryRun, ns.name, ok)
                 IN Outcome(r.store,
                            IF r.err THEN s ELSE Inc(s, "LabelsRemoved"),
                            r.reqs, "unlabel", lookup)
            ELSE IF After(today, d.t)
            THEN LET r == DeleteNamespace(st, c.DryRun, ns.name, c.TestMode, fail)
                 IN Outcome(r.store,
                            IF r.err THEN s ELSE Inc(s, "Deleted"),
                            r.reqs, "delete", lookup)
            ELSE Outcome(st, s, <<>>, "pending", lookup)

processLabeledNamespace_CountAttempts(st, c, ns, today, s, lookup, ok, fail) ==
    IF ~ ns.obj.owner.found
    THEN Outcome(st, Inc(s, "SkippedMissingOwner"), <<>>, "missing-owner", "none")
    ELSE LET d == ParseInLocation(ns.obj.label)
         IN IF d.err
            THEN Outcome(st, Inc(s, "InvalidLabels"), <<>>, "invalid-label", "none")
            ELSE IF ~ ValidDomain(ns.obj.owner.email, c.AllowedDomains)
            THEN Outcome(st, Inc(s, "SkippedInvalidDomain"), <<>>,
                         "invalid-domain", "none")
            ELSE IF defaultUserExists(c, lookup, ns.obj.owner.email)
            THEN LET r == RemoveLabel(st, c.DryRun, ns.name, ok)
                 IN Outcome(r.store,
                            IF r.err THEN s ELSE Inc(s, "LabelsRemoved"),
                            r.reqs, "unlabel", lookup)
            ELSE IF After(today, d.t)
            THEN LET r == DeleteNamespace(st, c.DryRun, ns.name, c.TestMode, fail)
                 IN Outcome(r.store,
                            Inc(s, "Deleted"),
                            r.reqs, "delete", lookup)
            ELSE Outcome(st, s, <<>>, "pending", lookup)

processLabeledNamespace(st, c, ns, today, s, lookup, ok, fail) ==
    IF ~ ns.obj.owner.found
    THEN Outcome(st, Inc(s, "SkippedMissingOwner"), <<>>, "missing-owner", "none")
    ELSE LET d == ParseInLocation(ns.obj.label)
         IN IF d.err
            THEN Outcome(st, Inc(s, "InvalidLabels"), <<>>, "invalid-label", "none")
            ELSE IF ~ ValidDomain(ns.obj.owner.email, c.AllowedDomains)
            THEN Outcome(st, Inc(s, "SkippedInvalidDomain"), <<>>,
                         "invalid-domain", "none")
            ELSE IF defaultUserExists(c, lookup, ns.obj.owner.email)
            THEN LET r == RemoveLabel(st, c.DryRun, ns.name, ok)
                 IN Outcome(r.store,
                            IF r.err THEN s ELSE Inc(s, "LabelsRemoved"),
                            r.reqs, "unlabel", lookup)
            ELSE IF After(today, d.t)
            THEN LET r == DeleteNamespace(st, c.DryRun, ns.name, c.TestMode, fail)
                 IN Outcome(r.store,
                            IF r.err THEN s ELSE Inc(s, "Deleted"),
                            r.reqs, "delete", lookup)
            ELSE Outcome(st, s, <<>>, "pending", lookup)

\* ----------------------------------------------------------------- config
Digits == {"0", "3", "9"}

DigitValue(c) == CASE c = "0" -> 0 [] c = "3" -> 3 [] c = "9" -> 9

RECURSIVE Decimal(_)
Decimal(s) ==
    IF s = <<>> THEN 0
    ELSE Decimal(SubSeq(s, 1, Len(s) - 1)) * 10 + DigitValue(s[Len(s)])

\* strconv.Atoi: an optional sign, then one digit or more and nothing else.
Atoi(s) ==
    LET signed == s # <<>> /\ s[1] \in {"-", "+"}
        body == IF signed THEN Tail(s) ELSE s
    IN IF body = <<>> \/ \E i \in 1..Len(body) : body[i] \notin Digits
       THEN [err |-> TRUE, n |-> 0]
       ELSE [err |-> FALSE,
             n |-> IF s[1] = "-" THEN 0 - Decimal(body) ELSE Decimal(body)]

getGracePeriod_Default30(val) ==
    IF val = <<>> THEN 30
    ELSE LET days == Atoi(val)
         IN IF days.err THEN 30 ELSE IF days.n < 0 THEN 0 ELSE days.n

getGracePeriod(val) ==
    IF val = <<>> THEN 30
    ELSE LET days == Atoi(val)
         IN IF days.err \/ days.n < 0 THEN 0 ELSE days.n

\* ------------------------------------------------------------------ state
VARIABLES
    store,      \* the namespaces of the cluster
    pre,        \* the namespaces as they were when the run started
    directory,  \* the emails the directory service knows
    cfg,        \* config.Config of the current process
    loc,        \* offset of the process's time zone from UTC, in seconds
    now,        \* the instant passed to ProcessNamespaces
    pc,         \* where the run is
    graceDate,  \* the label value computed at the start of the run
    items,      \* what is left of the current phase's listing
    listErr,    \* the listing of this run that failed: "none", "all",
                \* "phase1" or "phase2"
    stats,      \* the run's statistics
    reqs,       \* the requests of this run that change the store, in order
    evals,      \* the evaluations of this run, in order
    runs,       \* runs started so far
    prev,       \* what the previous run left behind
    changed,    \* "no", "gap" (the directory has changed since the last run
                \* stopped) or "yes" (it changed before this run started)
    labeledAt,  \* per namespace, now of the run that last set its label
    faults,     \* failed requests, listings and directory queries so far
    horizon,    \* how many runs are followed
    email,      \* an email handed to ValidDomain
    verdict,    \* what ValidDomain returned for it: "unset", "accept", "reject"
    graceEnv,   \* the value of the environment variable GRACE_PERIOD
    procs,      \* per overlapping process: its position, clock, listing
    legacy      \* the cluster and run of the first processNamespaces

vars == <<store, pre, directory, cfg, loc, now, pc, graceDate, items, listErr, stats, reqs,
          evals, runs, prev, changed, labeledAt, faults, horizon, email, verdict,
          graceEnv, procs, legacy>>

Stopped == {"idle", "done", "fatal", "panic"}

Owners == {NoOwner, Owner(UserEmail), Owner(GhostEmail), Owner(EvilEmail)}
Labels == {NoLabel, BadLabel, FormatLabel(Epoch, UTC)}
\* A managed namespace with any owner and label, or an unmanaged one, which
\* only Phase 2 can list: unlabeled, or labeled with a stamp.
Profiles ==
    {Namespace(TRUE, o, l) : o \in Owners, l \in Labels}
        \cup {Namespace(FALSE, Owner(GhostEmail), NoLabel),
              Namespace(FALSE, Owner(GhostEmail), FormatLabel(Epoch, UTC)),
              Namespace(FALSE, Owner(UserEmail), FormatLabel(Epoch, UTC))}
GraceChoices == {0, 1}
LocChoices == {UTC, West}
Steps == {0, 1, Day}

NoPrev == [ran |-> FALSE, now |-> 0, dryRun |-> FALSE, clean |-> FALSE,
           labeled |-> 0, deleted |-> 0, cands |-> {}, marked |-> {},
           ends |-> [n \in Names |-> {}], pending |-> [n \in Names |-> {}]]

Config(dry, test, grace) ==
    [DryRun |-> dry, TestMode |-> test, GracePeriod |-> grace,
     AllowedDomains |-> AllowedDomains, TestUsers |-> TestUsers]

\* The cluster of the first processNamespaces: one managed namespace with
\* an owner of an allowed domain, unlabeled; value is its delete-at label,
\* known says whether the directory has the owner, labeled whether this
\* program wrote the label, and clean whether the last run was no dry run
\* and met no failure.
NewLegacy ==
    [pc |-> "idle", now |-> Epoch, runs |-> 0, dryRun |-> FALSE,
     exists |-> TRUE, value |-> NoValue, known |-> FALSE, labeled |-> FALSE,
     clean |-> FALSE]

\* The processes of two runs that overlap, and a process not yet started.
\* dels is the history of its deletions: the namespace and the delete-at
\* label it carried when the Delete reached it.
Procs == {1, 2}
NewProcess ==
    [pc |-> "start", now |-> Epoch, dryRun |-> FALSE, graceDate |-> NoLabel,
     items |-> <<>>, dels |-> {}]

InitWith(stores, tests, h) ==
    /\ store \in stores
    /\ pre = store
    /\ horizon = h
    /\ directory = TestUsers
    /\ \E test \in tests, grace \in GraceChoices :
           cfg = Config(FALSE, test, grace)
    /\ loc \in LocChoices
    /\ now = Epoch
    /\ pc = "idle"
    /\ graceDate = NoLabel
    /\ items = <<>>
    /\ listErr = "none"
    /\ stats = ZeroStats
    /\ reqs = <<>>
    /\ evals = <<>>
    /\ runs = 0
    /\ prev = NoPrev
    /\ changed = "no"
    /\ labeledAt = [n \in Names |-> 0 - 1]
    /\ faults = 0
    /\ email = <<>>
    /\ verdict = "unset"
    /\ graceEnv = <<>>
    /\ procs = [p \in Procs |-> NewProcess]
    /\ legacy = NewLegacy

\* Clusters of two namespaces, followed for one run.
Init == InitWith([Names -> Profiles], BOOLEAN, 1)

\* Clusters of one namespace, followed for MaxRuns runs.
InitRuns ==
    InitWith({[n \in Names |-> IF n = NameOrder[1] THEN p ELSE Gone] :
                  p \in Profiles}, BOOLEAN, MaxRuns)

\* The directory knows email e (in test mode, cfg.TestUsers lists it).
Known(e) ==
    IF cfg.TestMode THEN e \in cfg.TestUsers ELSE e \in directory

\* A namespace Phase 1 is to label: managed, no delete-at label, an owner
\* of an allowed domain whom the directory does not know.
Candidate(o) ==
    /\ o.exists
    /\ o.partOf
    /\ o.label = NoLabel
    /\ o.owner.found
    /\ ValidDomain(o.owner.email, cfg.AllowedDomains)
    /\ ~ Known(o.owner.email)

\* The run has returned, and every listing, request and directory query
\* of it succeeded.
RunClean ==
    /\ pc = "done"
    /\ listErr = "none"
    /\ \A i \in 1..Len(reqs) : reqs[i].ok
    /\ \A i \in 1..Len(evals) : evals[i].lookup # "error"

\* The label patch of evaluation o for namespace n succeeded.
Labelled(o, n) ==
    \E i \in 1..Len(o.reqs) :
        o.reqs[i].verb = "patch-label" /\ o.reqs[i].name = n /\ o.reqs[i].ok

\* The delete-at label namespace n carries, if it carries one.
Carried(n) ==
    IF store[n].exists /\ store[n].label # NoLabel THEN {store[n].label} ELSE {}

\* What a run that has stopped leaves for the next one: ends is, per
\* namespace, the labels it carried when earlier runs stopped, and pending
\* those of them carried since a run last left it without a label.
Summary ==
    IF runs = 0 THEN NoPrev
    ELSE [ran |-> TRUE, now |-> now, dryRun |-> cfg.DryRun, clean |-> RunClean,
          labeled |-> stats.Labeled, deleted |-> stats.Deleted,
          cands |-> {n \in Names : Candidate(pre[n])},
          marked |-> {evals[i].name : i \in {k \in 1..Len(evals) :
                          Labelled(evals[k], evals[k].name)}},
          ends |-> [n \in Names |-> prev.ends[n] \cup Carried(n)],
          pending |-> [n \in Names |->
                          IF Carried(n) = {} THEN {}
                          ELSE prev.pending[n] \cup Carried(n)]]

\* ProcessNamespaces, up to the first listing: a new process starts with its
\* configuration and clock, lists every namespace and, unless that fails,
\* computes graceDate.
ProcessNamespaces ==
    /\ pc \in Stopped
    /\ runs < horizon
    /\ \E dry \in BOOLEAN, step \in Steps, listed \in BOOLEAN :
           /\ listed \/ faults < MaxFaults
           /\ faults' = IF listed THEN faults ELSE faults + 1
           /\ cfg' = [cfg EXCEPT !.DryRun = dry]
           /\ now' = now + step
           /\ pc' = IF listed THEN "phase1" ELSE "done"
           /\ listErr' = IF listed THEN "none" ELSE "all"
           /\ graceDate' = IF listed
                           THEN GraceDate(now', cfg.GracePeriod, loc)
                           ELSE NoLabel
    /\ pre' = store
    /\ runs' = runs + 1
    /\ prev' = Summary
    /\ changed' = IF changed = "gap" THEN "yes" ELSE "no"
    /\ stats' = ZeroStats
    /\ reqs' = <<>>
    /\ evals' = <<>>
    /\ items' = <<>>
    /\ UNCHANGED <<store, directory, loc, labeledAt, horizon, email,
                   verdict, graceEnv, procs, legacy>>

processPhase1_LogOnly ==
    /\ pc = "phase1"
    /\ \E listed \in BOOLEAN :
           /\ listed \/ faults < MaxFaults
           /\ faults' = IF listed THEN faults ELSE faults + 1
           /\ pc' = "loop1"
           /\ items' = IF listed THEN ListPhase1(store) ELSE <<>>
           /\ listErr' = IF listed THEN listErr ELSE "phase1"
    /\ UNCHANGED <<store, pre, directory, cfg, loc, now, graceDate, stats, reqs,
                   evals, runs, prev, changed, labeledAt, horizon, email,
                   verdict, graceEnv, procs, legacy>>

\* processPhase1, the listing: a failure is fatal (log.Fatalf).
processPhase1 ==
    /\ pc = "phase1"
    /\ \E listed \in BOOLEAN :
           /\ listed \/ faults < MaxFaults
           /\ faults' = IF listed THEN faults ELSE faults + 1
           /\ IF listed
              THEN pc' = "loop1" /\ items' = ListPhase1(store)
              ELSE pc' = "fatal" /\ items' = <<>>
           /\ listErr' = IF listed THEN listErr ELSE "phase1"
    /\ UNCHANGED <<store, pre, directory, cfg, loc, now, graceDate, stats, reqs,
                   evals, runs, prev, changed, labeledAt, horizon, email,
                   verdict, graceEnv, procs, legacy>>

Record(phase, ns, o) ==
    [phase |-> phase, name |-> ns.name, obj |-> ns.obj,
     known |-> Known(ns.obj.owner.email), branch |-> o.branch,
     lookup |-> o.lookup, reqs |-> o.reqs]

\* The failures an evaluation met: failed requests and a failed query.
Faults(o) ==
    Cardinality({i \in 1..Len(o.reqs) : ~ o.reqs[i].ok})
        + (IF o.lookup = "error" THEN 1 ELSE 0)

Phase1Step_AbortOnError ==
    /\ pc = "loop1"
    /\ items # <<>>
    /\ LET ns == Head(items)
       IN \E lookup \in LookupOutcomes(cfg, directory, ns.obj.owner.email),
             ok1 \in BOOLEAN, ok2 \in BOOLEAN :
              LET o == processUnlabeledNamespace(store, cfg, ns, graceDate,
                           Inc(stats, "TotalNamespaces"), lookup, ok1, ok2)
              IN /\ faults + Faults(o) <= MaxFaults
                 /\ faults' = faults + Faults(o)
                 /\ store' = o.store
                 /\ stats' = o.stats
                 /\ reqs' = reqs \o o.reqs
                 /\ evals' = Append(evals, Record(1, ns, o))
                 /\ labeledAt' = IF Labelled(o, ns.name)
                                 THEN [labeledAt EXCEPT ![ns.name] = now]
                                 ELSE labeledAt
                 /\ items' = IF \E i \in 1..Len(o.reqs) : ~ o.reqs[i].ok
                             THEN <<>> ELSE Tail(items)
    /\ UNCHANGED <<pre, directory, cfg, loc, now, pc, graceDate, listErr, runs, prev,
                   changed, horizon, email,
                   verdict, graceEnv, procs, legacy>>

\* processPhase1, one turn of the loop.
Phase1Step ==
    /\ pc = "loop1"
    /\ items # <<>>
    /\ LET ns == Head(items)
       IN \E lookup \in LookupOutcomes(cfg, directory, ns.obj.owner.email),
             ok1 \in BOOLEAN, ok2 \in BOOLEAN :
              LET o == processUnlabeledNamespace(store, cfg, ns, graceDate,
                           Inc(stats, "TotalNamespaces"), lookup, ok1, ok2)
              IN /\ faults + Faults(o) <= MaxFaults
                 /\ faults' = faults + Faults(o)
                 /\ store' = o.store
                 /\ stats' = o.stats
                 /\ reqs' = reqs \o o.reqs
                 /\ evals' = Append(evals, Record(1, ns, o))
                 /\ labeledAt' = IF Labelled(o, ns.name)
                                 THEN [labeledAt EXCEPT ![ns.name] = now]
                                 ELSE labeledAt
    /\ items' = Tail(items)
    /\ UNCHANGED <<pre, directory, cfg, loc, now, pc, graceDate, listErr, runs, prev,
                   changed, horizon, email,
                   verdict, graceEnv, procs, legacy>>

\* processPhase2, the listing: a failure is logged and the loop runs over
\* what List returned with the error, which is an empty list or no list at
\* all (a nil pointer, and the process panics).
processPhase2 ==
    /\ pc = "loop1"
    /\ items = <<>>
    /\ \E listed \in BOOLEAN, nil \in BOOLEAN :
           /\ listed \/ faults < MaxFaults
           /\ faults' = IF listed THEN faults ELSE faults + 1
           /\ IF listed
              THEN pc' = "loop2" /\ items' = ListPhase2(store)
              ELSE pc' = (IF nil THEN "panic" ELSE "loop2") /\ items' = <<>>
           /\ listErr' = IF listed THEN listErr ELSE "phase2"
    /\ UNCHANGED <<store, pre, directory, cfg, loc, now, graceDate, stats, reqs,
                   evals, runs, prev, changed, labeledAt, horizon, email,
                   verdict, graceEnv, procs, legacy>>

\* processPhase2, one turn of the loop.
Phase2Step ==
    /\ pc = "loop2"
    /\ items # <<>>
    /\ LET ns == Head(items)
       IN \E lookup \in LookupOutcomes(cfg, directory, ns.obj.owner.email),
             ok \in BOOLEAN, fail \in DeleteFailures(cfg.TestMode) :
              LET o == processLabeledNamespace(store, cfg, ns, now,
                           Inc(stats, "TotalNamespaces"), lookup, ok, fail)
              IN /\ faults + Faults(o) <= MaxFaults
                 /\ faults' = faults + Faults(o)
                 /\ store' = o.store
                 /\ stats' = o.stats
                 /\ reqs' = reqs \o o.reqs
                 /\ evals' = Append(evals, Record(2, ns, o))
    /\ items' = Tail(items)
    /\ UNCHANGED <<pre, directory, cfg, loc, now, pc, graceDate, listErr, runs,
                   prev, changed, labeledAt, horizon, email,
                   verdict, graceEnv, procs, legacy>>

\* ProcessNamespaces returns the statistics.
Return ==
    /\ pc = "loop2"
    /\ items = <<>>
    /\ pc' = "done"
    /\ UNCHANGED <<store, pre, directory, cfg, loc, now, graceDate, items, listErr,
                   stats, reqs, evals, runs, prev, changed, labeledAt, faults,
                   horizon, email,
                   verdict, graceEnv, procs, legacy>>

\* Between runs the owner of a namespace joins or leaves the directory
\* service.
DirectoryChange ==
    /\ pc \in Stopped
    /\ changed # "gap"
    /\ 0 < runs /\ runs < horizon
    /\ \E n \in Names :
           /\ store[n].exists
           /\ store[n].owner.found
           /\ LET e == store[n].owner.email
              IN directory' = IF e \in directory
                              THEN directory \ {e} ELSE directory \cup {e}
    /\ changed' = "gap"
    /\ UNCHANGED <<store, pre, cfg, loc, now, pc, graceDate, items, listErr, stats, reqs,
                   evals, runs, prev, labeledAt, faults, horizon, email,
                   verdict, graceEnv, procs, legacy>>

Next ==
    \/ ProcessNamespaces
    \/ processPhase1
    \/ Phase1Step
    \/ processPhase2
    \/ Phase2Step
    \/ Return

NextRuns ==
    \/ Next
    \/ DirectoryChange

Spec == Init /\ [][Next]_vars

SpecRuns == InitRuns /\ [][NextRuns]_vars

\* Clusters of one managed namespace whose owner has an allowed domain,
\* followed for one run more than MaxRuns.
InitMarker ==
    InitWith({[n \in Names |-> IF n = NameOrder[1] THEN p ELSE Gone] :
                  p \in {Namespace(TRUE, Owner(e), l) :
                             e \in {UserEmail, GhostEmail},
                             l \in {NoLabel, FormatLabel(Epoch, UTC)}}},
             {FALSE}, MaxRuns + 1)

SpecMarker == InitMarker /\ [][NextRuns]_vars

\* The characters emails are made of, the emails of up to MaxEmailLen
\* characters, and the allowlists they are validated against.
Alphabet == {"u", "@", ".", "c"}
Emails == UNION {[1..k -> Alphabet] : k \in 0..MaxEmailLen}
DomainLists == {<< <<"c">> >>, << <<"u", ".", "c">>, <<"c", ".", "u">> >>}

\* No cluster and no run: an email and an allowlist for ValidDomain.
InitDomain ==
    /\ store = [n \in Names |-> Gone]
    /\ pre = store
    /\ horizon = 0
    /\ directory = {}
    /\ \E ds \in DomainLists, grace \in GraceChoices :
           cfg = [Config(FALSE, FALSE, grace) EXCEPT !.AllowedDomains = ds]
    /\ loc = UTC
    /\ now = Epoch
    /\ pc = "idle"
    /\ graceDate = NoLabel
    /\ items = <<>>
    /\ listErr = "none"
    /\ stats = ZeroStats
    /\ reqs = <<>>
    /\ evals = <<>>
    /\ runs = 0
    /\ prev = NoPrev
    /\ changed = "no"
    /\ labeledAt = [n \in Names |-> 0 - 1]
    /\ faults = 0
    /\ email \in Emails
    /\ verdict = "unset"
    /\ graceEnv = <<>>
    /\ procs = [p \in Procs |-> NewProcess]
    /\ legacy = NewLegacy

\* clients.ValidDomain(email, cfg.AllowedDomains)
Validate ==
    /\ verdict = "unset"
    /\ verdict' = IF ValidDomain(email, cfg.AllowedDomains)
                  THEN "accept" ELSE "reject"
    /\ UNCHANGED <<store, pre, directory, cfg, loc, now, pc, graceDate, items,
                   listErr, stats, reqs, evals, runs, prev, changed, labeledAt,
                   faults, horizon, email, graceEnv, procs, legacy>>

NextDomain == Validate

SpecDomain == InitDomain /\ [][NextDomain]_vars

\* The characters and values of GRACE_PERIOD.
EnvAlphabet == {"-", "+", "0", "3", "9", "d"}
EnvValues == UNION {[1..k -> EnvAlphabet] : k \in 0..MaxEnvLen}

\* No cluster and no run: a process about to load its configuration.
InitConfig ==
    /\ store = [n \in Names |-> Gone]
    /\ pre = store
    /\ horizon = 0
    /\ directory = {}
    /\ \E dry \in BOOLEAN, test \in BOOLEAN : cfg = Config(dry, test, 0)
    /\ loc = UTC
    /\ now = Epoch
    /\ pc = "start"
    /\ graceDate = NoLabel
    /\ items = <<>>
    /\ listErr = "none"
    /\ stats = ZeroStats
    /\ reqs = <<>>
    /\ evals = <<>>
    /\ runs = 0
    /\ prev = NoPrev
    /\ changed = "no"
    /\ labeledAt = [n \in Names |-> 0 - 1]
    /\ faults = 0
    /\ email = <<>>
    /\ verdict = "unset"
    /\ graceEnv \in EnvValues
    /\ procs = [p \in Procs |-> NewProcess]
    /\ legacy = NewLegacy

\* config.LoadConfig, the grace period
LoadConfig ==
    /\ pc = "start"
    /\ pc' = "loaded"
    /\ cfg' = [cfg EXCEPT !.GracePeriod = getGracePeriod(graceEnv)]
    /\ UNCHANGED <<store, pre, directory, loc, now, graceDate, items, listErr,
                   stats, reqs, evals, runs, prev, changed, labeledAt, faults,
                   horizon, email, verdict, graceEnv, procs, legacy>>

NextConfig == LoadConfig

SpecConfig == InitConfig /\ [][NextConfig]_vars

\* ----------------------------------------------------------------- legacy
\* processNamespaces of cmd/namespace-cleaner/main.go, the first listing
\* and loop: the namespace without a label whose owner the directory does
\* not have is labeled with graceDate.
processNamespaces ==
    /\ legacy.pc = "idle"
    /\ legacy.runs <= MaxRuns
    /\ \E dry \in BOOLEAN, step \in Steps, known \in BOOLEAN,
          listed \in BOOLEAN, ok \in BOOLEAN :
           LET today == legacy.now + step
               graceDate_ == Format(today + cfg.GracePeriod * Day,
                                    labelTimeLayout)
               marks == /\ listed /\ legacy.exists /\ legacy.value = NoValue
                        /\ ~ known
               patched == marks /\ ~ dry /\ ok
           IN /\ (listed /\ (ok \/ (marks /\ ~ dry))) \/ (~ listed /\ ok)
              /\ faults + (IF listed /\ ok THEN 0 ELSE 1) <= MaxFaults
              /\ faults' = faults + (IF listed /\ ok THEN 0 ELSE 1)
              /\ legacy' = [legacy EXCEPT
                     !.pc = IF listed THEN "expired" ELSE "fatal",
                     !.now = today,
                     !.runs = @ + 1,
                     !.dryRun = dry,
                     !.known = known,
                     !.value = IF patched THEN graceDate_ ELSE @,
                     !.labeled = IF patched THEN TRUE ELSE @,
                     !.clean = listed /\ ok /\ ~ dry]
    /\ UNCHANGED <<store, pre, directory, cfg, loc, now, pc, graceDate, items,
                   listErr, stats, reqs, evals, runs, prev, changed,
                   labeledAt, horizon, email, verdict, graceEnv, procs>>

\* processNamespaces, the second listing and loop: the label is restored
\* to RFC3339 and parsed; a label that does not parse is skipped, the label
\* of a found owner is removed, and the namespace of a missing owner is
\* deleted after the label's instant.
processExpired ==
    /\ legacy.pc = "expired"
    /\ \E listed \in BOOLEAN, ok \in BOOLEAN :
           LET labelValue == Replace(Replace(legacy.value.text, "_", "T", 1),
                                     "_", ":", 0 - 1)
               deletionDate == Parse(RFC3339,
                                     [legacy.value EXCEPT !.text = labelValue])
               selected == listed /\ legacy.exists /\ legacy.value # NoValue
               restores == selected /\ ~ deletionDate.err /\ legacy.known
               deletes == /\ selected /\ ~ deletionDate.err /\ ~ legacy.known
                          /\ After(legacy.now, deletionDate.t)
               sends == (restores \/ deletes) /\ ~ legacy.dryRun
           IN /\ (listed /\ (ok \/ sends)) \/ (~ listed /\ ok)
              /\ faults + (IF listed /\ ok THEN 0 ELSE 1) <= MaxFaults
              /\ faults' = faults + (IF listed /\ ok THEN 0 ELSE 1)
              /\ legacy' = [legacy EXCEPT
                     !.pc = IF listed THEN "idle" ELSE "fatal",
                     !.value = IF restores /\ sends /\ ok THEN NoValue ELSE @,
                     !.exists = IF deletes /\ sends /\ ok THEN FALSE ELSE @,
                     !.clean = @ /\ listed /\ ok]
    /\ UNCHANGED <<store, pre, directory, cfg, loc, now, pc, graceDate, items,
                   listErr, stats, reqs, evals, runs, prev, changed,
                   labeledAt, horizon, email, verdict, graceEnv, procs>>

InitLegacy == InitWith({[n \in Names |-> Gone]}, {FALSE}, 0)

NextLegacy ==
    \/ processNamespaces
    \/ processExpired

SpecLegacy == InitLegacy /\ [][NextLegacy]_vars

\* ---------------------------------------------------------------- overlap
\* Two processes run ProcessNamespaces against the same store, their
\* listings and requests interleaved at will; each has its own clock,
\* dry-run flag and listings, and the directory service changes between
\* their queries.
InitOverlap ==
    InitWith({[n \in Names |-> IF n = NameOrder[1] THEN p ELSE Gone] :
                  p \in Profiles}, {FALSE}, 0)

\* The configuration process p runs with.
ConfigOf(p) == [cfg EXCEPT !.DryRun = procs[p].dryRun]

\* ProcessNamespaces of process p, up to the first listing.
ProcessNamespacesOf(p) ==
    /\ procs[p].pc = "start"
    /\ \E dry \in BOOLEAN, step \in Steps, listed \in BOOLEAN :
           /\ listed \/ faults < MaxFaults
           /\ faults' = IF listed THEN faults ELSE faults + 1
           /\ procs' = [procs EXCEPT ![p] =
                  [@ EXCEPT !.pc = IF listed THEN "phase1" ELSE "done",
                            !.dryRun = dry,
                            !.now = Epoch + step,
                            !.graceDate =
                                IF listed
                                THEN GraceDate(Epoch + step, cfg.GracePeriod, loc)
                                ELSE NoLabel]]
    /\ UNCHANGED <<store, pre, directory, cfg, loc, now, pc, graceDate, items,
                   listErr, stats, reqs, evals, runs, prev, changed,
                   labeledAt, horizon, email, verdict, graceEnv, legacy>>

\* processPhase1 of process p, the listing.
processPhase1Of(p) ==
    /\ procs[p].pc = "phase1"
    /\ \E listed \in BOOLEAN :
           /\ listed \/ faults < MaxFaults
           /\ faults' = IF listed THEN faults ELSE faults + 1
           /\ procs' = [procs EXCEPT ![p] =
                  [@ EXCEPT !.pc = IF listed THEN "loop1" ELSE "fatal",
                            !.items = IF listed THEN ListPhase1(store)
                                      ELSE <<>>]]
    /\ UNCHANGED <<store, pre, directory, cfg, loc, now, pc, graceDate, items,
                   listErr, stats, reqs, evals, runs, prev, changed,
                   labeledAt, horizon, email, verdict, graceEnv, legacy>>

\* processPhase1 of process p, one turn of the loop.
Phase1StepOf(p) ==
    /\ procs[p].pc = "loop1"
    /\ procs[p].items # <<>>
    /\ LET ns == Head(procs[p].items)
       IN \E lookup \in LookupOutcomes(cfg, directory, ns.obj.owner.email),
             ok1 \in BOOLEAN, ok2 \in BOOLEAN :
              LET o == processUnlabeledNamespace(store, ConfigOf(p), ns,
                           procs[p].graceDate, ZeroStats, lookup, ok1, ok2)
              IN /\ faults + Faults(o) <= MaxFaults
                 /\ faults' = faults + Faults(o)
                 /\ store' = o.store
                 /\ procs' = [procs EXCEPT ![p].items = Tail(@)]
    /\ UNCHANGED <<pre, directory, cfg, loc, now, pc, graceDate, items,
                   listErr, stats, reqs, evals, runs, prev, changed,
                   labeledAt, horizon, email, verdict, graceEnv, legacy>>

\* processPhase2 of process p, the listing.
processPhase2Of(p) ==
    /\ procs[p].pc = "loop1"
    /\ procs[p].items = <<>>
    /\ \E listed \in BOOLEAN, nil \in BOOLEAN :
           /\ listed \/ faults < MaxFaults
           /\ faults' = IF listed THEN faults ELSE faults + 1
           /\ procs' = [procs EXCEPT ![p] =
                  [@ EXCEPT !.pc = IF listed \/ ~ nil THEN "loop2" ELSE "panic",
                            !.items = IF listed THEN ListPhase2(store)
                                      ELSE <<>>]]
    /\ UNCHANGED <<store, pre, directory, cfg, loc, now, pc, graceDate, items,
                   listErr, stats, reqs, evals, runs, prev, changed,
                   labeledAt, horizon, email, verdict, graceEnv, legacy>>

\* processPhase2 of process p, one turn of the loop: the namespace is
\* evaluated as it was listed, and the requests go to the store as it is.
Phase2StepOf(p) ==
    /\ procs[p].pc = "loop2"
    /\ procs[p].items # <<>>
    /\ LET ns == Head(procs[p].items)
       IN \E lookup \in LookupOutcomes(cfg, directory, ns.obj.owner.email),
             ok \in BOOLEAN, fail \in DeleteFailures(cfg.TestMode) :
              LET o == processLabeledNamespace(store, ConfigOf(p), ns,
                           procs[p].now, ZeroStats, lookup, ok, fail)
                  removed == store[ns.name].exists /\ ~ o.store[ns.name].exists
              IN /\ faults + Faults(o) <= MaxFaults
                 /\ faults' = faults + Faults(o)
                 /\ store' = o.store
                 /\ procs' = [procs EXCEPT ![p] =
                        [@ EXCEPT !.items = Tail(@),
                                  !.dels = IF removed
                                           THEN @ \cup {[name |-> ns.name,
                                                    label |-> store[ns.name].label]}
                                           ELSE @]]
    /\ UNCHANGED <<pre, directory, cfg, loc, now, pc, graceDate, items,
                   listErr, stats, reqs, evals, runs, prev, changed,
                   labeledAt, horizon, email, verdict, graceEnv, legacy>>

\* ProcessNamespaces of process p returns.
ReturnOf(p) ==
    /\ procs[p].pc = "loop2"
    /\ procs[p].items = <<>>
    /\ procs' = [procs EXCEPT ![p].pc = "done"]
    /\ UNCHANGED <<store, pre, directory, cfg, loc, now, pc, graceDate, items,
                   listErr, stats, reqs, evals, runs, prev, changed,
                   labeledAt, faults, horizon, email, verdict, graceEnv, legacy>>

\* While a process runs, an owner joins or leaves the directory service.
DirectoryFlip ==
    /\ \E p \in Procs : procs[p].pc \in {"phase1", "loop1", "loop2"}
    /\ \E e \in {UserEmail, GhostEmail} :
           directory' = IF e \in directory
                        THEN directory \ {e} ELSE directory \cup {e}
    /\ UNCHANGED <<store, pre, cfg, loc, now, pc, graceDate, items, listErr,
                   stats, reqs, evals, runs, prev, changed, labeledAt,
                   faults, horizon, email, verdict, graceEnv, procs, legacy>>

NextOverlap ==
    \/ \E p \in Procs : ProcessNamespacesOf(p)
    \/ \E p \in Procs : processPhase1Of(p)
    \/ \E p \in Procs : Phase1StepOf(p)
    \/ \E p \in Procs : processPhase2Of(p)
    \/ \E p \in Procs : Phase2StepOf(p)
    \/ \E p \in Procs : ReturnOf(p)
    \/ DirectoryFlip

SpecOverlap == InitOverlap /\ [][NextOverlap]_vars

\* ----------------------------------------------------------------- claims

\* C1 (as stated): when a run that is no dry run has returned and every
\* listing, request and directory query of it succeeded, every namespace
\* that was a Phase-1 candidate when the run started carries delete-at =
\* now + gracePeriod days, and Labeled counts each candidate once.
C1_Phase1Labels ==
    (RunClean /\ ~ cfg.DryRun) =>
        /\ \A n \in Names :
               Candidate(pre[n]) =>
                   store[n].label = GraceDate(now, cfg.GracePeriod, loc)
        /\ stats.Labeled = Cardinality({n \in Names : Candidate(pre[n])})

\* C2 (as stated): a run that repeats the previous run's now, both no dry
\* runs, both without any failure and with no change of the directory in
\* between, sends no request and reports Labeled = Deleted = LabelsRemoved
\* = 0.
C2_Idempotent ==
    (/\ RunClean /\ ~ cfg.DryRun
     /\ prev.ran /\ prev.clean /\ ~ prev.dryRun
     /\ prev.now = now
     /\ changed = "no") =>
        /\ reqs = <<>>
        /\ stats.Labeled = 0
        /\ stats.Deleted = 0
        /\ stats.LabelsRemoved = 0

\* C3 (as stated): a namespace that was a Phase-1 candidate of the previous
\* run is gone after the next run whose now is later than the previous now
\* plus the grace period, when both runs are no dry runs, nothing failed in
\* either and the directory did not change.
C3_EventualDeletion ==
    (/\ RunClean /\ ~ cfg.DryRun
     /\ prev.ran /\ prev.clean /\ ~ prev.dryRun
     /\ changed = "no"
     /\ now > prev.now + cfg.GracePeriod * Day) =>
        \A n \in prev.cands : ~ store[n].exists

\* C4 (as stated): a namespace the engine labeled in the run at instant t
\* is deleted only by a run whose now is after t + gracePeriod days.
C4_GraceHonoured ==
    \A i \in 1..Len(reqs) :
        (/\ reqs[i].verb = "delete"
         /\ reqs[i].ok
         /\ labeledAt[reqs[i].name] >= 0) =>
            now > labeledAt[reqs[i].name] + cfg.GracePeriod * Day

\* The owner of evaluation e has an allowed domain and its delete-at label
\* parses.
Decidable(e) ==
    /\ e.phase = 2
    /\ e.obj.owner.found
    /\ ~ ParseInLocation(e.obj.label).err
    /\ ValidDomain(e.obj.owner.email, cfg.AllowedDomains)

\* The directory answered that it knows the owner.
OwnerFound(e) == e.known /\ e.lookup # "error"

AllOk(rs) == \A k \in 1..Len(rs) : rs[k].ok

Due(e) == now > ParseInLocation(e.obj.label).t

C7_DryRunPure ==
    [][cfg'.DryRun => (store' = store /\ reqs' = <<>>)]_vars

\* C7 witness: a dry run returned that would have labeled one namespace
\* and deleted another.
C7_Witness ==
    /\ cfg.DryRun
    /\ pc = "done"
    /\ stats.Labeled = 1
    /\ stats.Deleted = 1
    /\ store = pre

\* C8: a run that is no dry run and repeats the now of the dry run before
\* it, both without any failure and with the directory unchanged, returns
\* the Labeled and Deleted counts the dry run returned.
C8_PreviewAccurate ==
    (/\ RunClean /\ ~ cfg.DryRun
     /\ prev.ran /\ prev.clean /\ prev.dryRun
     /\ prev.now = now
     /\ changed = "no") =>
        /\ stats.Labeled = prev.labeled
        /\ stats.Deleted = prev.deleted

\* C8 witness: the dry run announced a deletion and the run after it made
\* it.
C8_Witness ==
    /\ RunClean /\ ~ cfg.DryRun
    /\ prev.ran /\ prev.clean /\ prev.dryRun
    /\ prev.now = now
    /\ changed = "no"
    /\ prev.deleted = 1
    /\ stats.Deleted = 1
    /\ \E n \in Names : pre[n].exists /\ ~ store[n].exists

\* C9 (as stated): after a run that is no dry run, a namespace whose
\* delete-at value does not parse carries no delete-at label, and
\* InvalidLabels counts it.
C9_InvalidLabelRepaired ==
    (pc = "done" /\ listErr = "none" /\ ~ cfg.DryRun) =>
        /\ \A n \in Names :
               (/\ pre[n].exists
                /\ pre[n].owner.found
                /\ pre[n].label.kind # "none"
                /\ ParseInLocation(pre[n].label).err) =>
                   store[n].label = NoLabel
        /\ stats.InvalidLabels =
               Cardinality({n \in Names :
                   /\ pre[n].exists
                   /\ pre[n].owner.found
                   /\ pre[n].label.kind # "none"
                   /\ ParseInLocation(pre[n].label).err})

Evaluated(phase, n) ==
    \E i \in 1..Len(evals) : evals[i].phase = phase /\ evals[i].name = n

\* The label Phase 1 wrote for evaluation e is still on the namespace when
\* Phase 2 lists.
LabelLeft(e) ==
    /\ e.phase = 1
    /\ Len(e.reqs) = 2
    /\ e.reqs[1].ok
    /\ ~ e.reqs[2].ok

\* C11: a failed label, unlabel or delete request stops nothing: while no
\* listing has failed the process neither exits nor is stuck, and when the
\* run has returned every namespace Phase 1 had to list and every namespace
\* Phase 2 had to list (those labeled at the start and those Phase 1 left
\* labeled) has been evaluated by that phase.
C11_MutationFailureContinues ==
    /\ listErr = "none" => pc \notin {"fatal", "panic"}
    /\ pc \notin Stopped => ENABLED Next
    /\ (pc = "done" /\ listErr = "none") =>
           \A n \in Names :
               /\ Phase1Selector(pre, n) => Evaluated(1, n)
               /\ Phase2Selector(pre, n) => Evaluated(2, n)
               /\ (\E i \in 1..Len(evals) :
                       evals[i].name = n /\ LabelLeft(evals[i])) =>
                      Evaluated(2, n)

\* C11 witness: a request for one namespace failed, the next namespace was
\* evaluated and mutated, and the run returned.
C11_Witness ==
    /\ pc = "done"
    /\ \E i, j \in 1..Len(evals) :
           /\ i < j
           /\ evals[i].name # evals[j].name
           /\ ~ AllOk(evals[i].reqs)
           /\ evals[j].reqs # <<>>
           /\ AllOk(evals[j].reqs)

\* C12 (as stated): in one run no namespace is evaluated by both phases,
\* and TotalNamespaces is the number of distinct namespaces evaluated.
C12_NoDoubleProcessing ==
    /\ \A n \in Names : ~ (Evaluated(1, n) /\ Evaluated(2, n))
    /\ stats.TotalNamespaces =
           Cardinality({evals[i].name : i \in 1..Len(evals)})

\* The requests of rs that label, unlabel or delete.
Mutations(rs) ==
    {k \in 1..Len(rs) :
        rs[k].verb \in {"patch-label", "patch-unlabel", "delete"}}

\* C13 (as stated): one evaluation sends at most one label, unlabel or
\* delete request for its namespace.
C13_OneMutationPerPhase ==
    \A i \in 1..Len(evals) : Cardinality(Mutations(evals[i].reqs)) <= 1

\* The skip counter Phase 1 owes to evaluation e, "none" when it is to
\* label.
Phase1Skip(e) ==
    IF ~ e.obj.owner.found THEN "SkippedMissingOwner"
    ELSE IF ~ ValidDomain(e.obj.owner.email, cfg.AllowedDomains)
    THEN "SkippedInvalidDomain"
    ELSE IF OwnerFound(e) THEN "SkippedExistingUser"
    ELSE "none"

\* C14: a turn of the Phase-1 loop whose namespace has no owner, else an
\* owner of a domain not allowed, else an owner the directory finds, sends
\* no request, leaves the store as it is and adds one to TotalNamespaces
\* and to that one skip counter, nothing else.
C14_Phase1Skips ==
    [][(pc = "loop1" /\ items # <<>>) =>
           LET e == evals'[Len(evals')]
           IN /\ e.phase = 1
              /\ e.name = Head(items).name
              /\ Phase1Skip(e) # "none" =>
                     /\ store' = store
                     /\ reqs' = reqs
                     /\ e.reqs = <<>>
                     /\ stats' = Inc(Inc(stats, "TotalNamespaces"),
                                     Phase1Skip(e))]_vars

\* C14 witness: an owner of a domain not allowed whom the directory knows
\* was skipped for the domain.
C14_Witness ==
    \E i \in 1..Len(evals) :
        /\ evals[i].phase = 1
        /\ evals[i].known
        /\ Phase1Skip(evals[i]) = "SkippedInvalidDomain"
        /\ stats.SkippedInvalidDomain = 1
        /\ stats.SkippedExistingUser = 0

\* The skip counter Phase 2 owes to evaluation e, "none" when the label
\* does not parse or the directory is to be asked.
Phase2Skip(e) ==
    IF ~ e.obj.owner.found THEN "SkippedMissingOwner"
    ELSE IF ParseInLocation(e.obj.label).err THEN "none"
    ELSE IF ~ ValidDomain(e.obj.owner.email, cfg.AllowedDomains)
    THEN "SkippedInvalidDomain"
    ELSE "none"

MarkedAreManaged(st) ==
    \A n \in Names : Phase2Selector(st, n) => st[n].partOf

Ignored(o) ==
    /\ o.exists
    /\ o.owner.found
    /\ ~ ValidDomain(o.owner.email, cfg.AllowedDomains)
    /\ o.label.kind # "text"

C18_LabelThenRestore ==
    /\ (RunClean /\ ~ cfg.DryRun) =>
           \A i \in 1..Len(evals) :
               Labelled(evals[i], evals[i].name) =>
                   store[evals[i].name].label.kind = "stamp"
    /\ (/\ RunClean /\ ~ cfg.DryRun
        /\ prev.ran /\ prev.clean /\ ~ prev.dryRun
        /\ changed = "yes"
        /\ now <= prev.now + cfg.GracePeriod * Day) =>
           \A n \in prev.marked :
               (pre[n].owner.found /\ Known(pre[n].owner.email)) =>
                   /\ store[n].exists
                   /\ store[n].label = NoLabel
                   /\ stats.LabelsRemoved = 1
                   /\ stats.Deleted = 0

IsAllowed(e, domains) ==
    /\ Cardinality({i \in 1..Len(e) : e[i] = "@"}) = 1
    /\ LET at == CHOOSE i \in 1..Len(e) : e[i] = "@"
           domain == SubSeq(e, at + 1, Len(e))
       IN /\ at > 1
          /\ at < Len(e)
          /\ \E k \in 1..Len(domains) :
                 LET d == <<".">> \o domains[k]
                 IN \/ domain = domains[k]
                    \/ /\ Len(domain) >= Len(d)
                       /\ \A j \in 1..Len(d) :
                              domain[Len(domain) - Len(d) + j] = d[j]

\* C20 (as stated): ValidDomain accepts an email exactly when it splits on
\* "@" into two non-empty parts and the domain part is an allowed domain or
\* ends with "." followed by one.
C20_ValidDomain ==
    verdict # "unset" =>
        (verdict = "accept" <=> IsAllowed(email, cfg.AllowedDomains))

\* C21 (as stated): the delete-at value a run computes for its now and
\* grace period reads back as an instant that now is not after, and that
\* now plus gracePeriod + 1 days is after.
C21_GraceArithmetic ==
    graceDate.kind = "stamp" =>
        LET expiry == ParseInLocation(graceDate)
        IN /\ ~ expiry.err
           /\ ~ (now > expiry.t)
           /\ now + (cfg.GracePeriod + 1) * Day > expiry.t

\* The string s is an integer in decimal: an optional sign and digits.
Numeric(s) ==
    \E k \in 0..1 :
        /\ Len(s) > k
        /\ k = 1 => s[1] \in {"-", "+"}
        /\ \A i \in (k + 1)..Len(s) : s[i] \in Digits

\* The configuration has been loaded from the environment.
Loaded == pc = "loaded"

\* C22 (as stated): the configured grace period is 30 when GRACE_PERIOD is
\* missing or is no integer, and 0 when it is a negative integer.
C22_GraceDefault ==
    Loaded =>
        /\ ~ Numeric(graceEnv) => cfg.GracePeriod = 30
        /\ (Numeric(graceEnv) /\ Atoi(graceEnv).n < 0) => cfg.GracePeriod = 0

\* C23 (as stated): a GRACE_PERIOD of digits followed by "d" configures
\* that number of days.
C23_DocumentedFormat ==
    (/\ Loaded
     /\ Len(graceEnv) > 1
     /\ graceEnv[Len(graceEnv)] = "d"
     /\ \A i \in 1..(Len(graceEnv) - 1) : graceEnv[i] \in Digits) =>
        cfg.GracePeriod = Decimal(SubSeq(graceEnv, 1, Len(graceEnv) - 1))

\* C24 (as stated): UserExists is true only for a directory query that
\* succeeded: an evaluation whose query returned an error, recognised as
\* not-found or not, treats the owner as missing.  So an unlabeled managed
\* namespace with an allowed-domain owner whose query errors is labeled (it
\* carries the delete-at label of this run once its evaluation is over,
\* when no request failed), and a labeled one that is due is deleted.
C24_DirectoryErrors ==
    \A i \in 1..Len(evals) :
        LET e == evals[i]
        IN /\ e.branch \in {"existing-user", "unlabel"} =>
                  e.lookup \in {"found", "unasked"}
           /\ (e.lookup = "error" /\ e.phase = 1) =>
                  /\ e.branch = "label"
                  /\ (/\ pc = "loop1" /\ i = Len(evals)
                      /\ ~ cfg.DryRun /\ AllOk(e.reqs)) =>
                         store[e.name].label = graceDate
           /\ (e.lookup = "error" /\ e.phase = 2 /\ Due(e)) =>
                  /\ e.branch = "delete"
                  /\ (~ cfg.DryRun /\ AllOk(e.reqs)) => ~ store[e.name].exists

\* C25 (as stated): the delete-at value a run writes in Phase 1, for now in
\* any location and any grace period g >= 0, is parsed by Phase 2 without
\* error to the instant now + g days cut to the whole second.
C25_LabelRoundTrip ==
    \A i \in 1..Len(evals) :
        (evals[i].phase = 1 /\ Labelled(evals[i], evals[i].name)) =>
            LET deletionDate == ParseInLocation(graceDate)
                written == now + cfg.GracePeriod * Day
            IN /\ ~ deletionDate.err
               /\ deletionDate.t = (written \div TicksPerSec) * TicksPerSec

\* C26: Phase 2 takes every namespace with a delete-at label, with or
\* without the part-of label: when a run has returned with no listing
\* failed, each namespace that started the run labeled and unmanaged was
\* evaluated by Phase 2, and one with a parsable label that is due, an
\* allowed-domain owner and an owner the directory does not find took the
\* delete branch and, no dry run and no request failed, is gone.
C26_Phase2IgnoresMembership ==
    (pc = "done" /\ listErr = "none") =>
        \A n \in Names :
            (pre[n].exists /\ pre[n].label # NoLabel /\ ~ pre[n].partOf) =>
                \E i \in 1..Len(evals) :
                    LET e == evals[i]
                    IN /\ e.phase = 2 /\ e.name = n /\ e.obj = pre[n]
                       /\ (Decidable(e) /\ ~ OwnerFound(e) /\ Due(e)) =>
                              /\ e.branch = "delete"
                              /\ (~ cfg.DryRun /\ AllOk(e.reqs)) =>
                                     ~ store[n].exists

\* C26 witness: an unmanaged namespace with an expired label and a missing
\* owner was deleted.
C26_Witness ==
    /\ pc = "done"
    /\ ~ cfg.DryRun
    /\ \E i \in 1..Len(evals) :
           LET e == evals[i]
           IN /\ ~ e.obj.partOf
              /\ Decidable(e) /\ ~ e.known /\ e.lookup # "error" /\ Due(e)
              /\ e.branch = "delete"
              /\ AllOk(e.reqs)
              /\ ~ store[e.name].exists
              /\ stats.Deleted >= 1

Verbs(rs) == [k \in 1..Len(rs) |-> rs[k].verb]

\* C28: in test mode and no dry run, an evaluation that calls
\* DeleteNamespace sends Get, then Update, then Delete, in that order and
\* stopping at the first that fails: after a failed Get or Update no Delete
\* is sent, the namespace stays and the call is not counted in Deleted.
\* The Update that succeeded has cleared the finalizers.
C28_FinalizerOrdering ==
    (cfg.TestMode /\ ~ cfg.DryRun) =>
        /\ \A i \in 1..Len(evals) :
               LET e == evals[i]
               IN e.branch = "delete" =>
                      /\ \/ Verbs(e.reqs) = <<"get">> /\ ~ e.reqs[1].ok
                         \/ /\ Verbs(e.reqs) = <<"get", "update">>
                            /\ e.reqs[1].ok /\ ~ e.reqs[2].ok
                         \/ /\ Verbs(e.reqs) = <<"get", "update", "delete">>
                            /\ e.reqs[1].ok /\ e.reqs[2].ok
                      /\ ~ AllOk(e.reqs) => store[e.name].exists
                      /\ Len(e.reqs) < 3 => store[e.name] = e.obj
                      /\ (Len(e.reqs) = 3 /\ store[e.name].exists) =>
                             ~ store[e.name].finalizers
        /\ stats.Deleted =
               Cardinality({i \in 1..Len(evals) :
                   /\ evals[i].branch = "delete"
                   /\ Len(evals[i].reqs) = 3
                   /\ evals[i].reqs[3].ok})

\* C28 witness: the Update failed, and the namespace is there with its
\* finalizers, no Delete sent and none counted.
C28_Witness ==
    /\ cfg.TestMode /\ ~ cfg.DryRun
    /\ stats.Deleted = 0
    /\ \E i \in 1..Len(evals) :
           LET e == evals[i]
           IN /\ e.branch = "delete"
              /\ Verbs(e.reqs) = <<"get", "update">>
              /\ ~ e.reqs[2].ok
              /\ e.obj.finalizers
              /\ store[e.name] = e.obj

\* Request verb for namespace n is among rs and succeeded.
Done(rs, verb, n) ==
    \E k \in 1..Len(rs) : rs[k].verb = verb /\ rs[k].name = n /\ rs[k].ok

\* C29: a step changes the store only by the requests of the evaluation it
\* adds, and only in the namespace they name: a Delete that succeeded
\* removes it; otherwise it keeps its part-of label and owner annotation
\* and its delete-at label is absent after an unlabel patch that succeeded,
\* the value given after a label patch that succeeded with no unlabel
\* patch after it, and as before when no patch succeeded.  Every other
\* namespace is unchanged.
C29_MutationFrame ==
    [][IF Len(evals') = Len(evals) + 1
       THEN LET e == evals'[Len(evals')]
                n == e.name
            IN /\ \A m \in Names \ {n} : store'[m] = store[m]
               /\ \A k \in 1..Len(e.reqs) : e.reqs[k].name = n
               /\ IF Done(e.reqs, "delete", n)
                  THEN ~ store'[n].exists
                  ELSE /\ store'[n].exists = store[n].exists
                       /\ store'[n].partOf = store[n].partOf
                       /\ store'[n].owner = store[n].owner
                       /\ store'[n].label =
                              IF Done(e.reqs, "patch-unlabel", n) THEN NoLabel
                              ELSE IF Done(e.reqs, "patch-label", n)
                              THEN graceDate
                              ELSE store[n].label
       ELSE store' = store]_vars

\* C29 witness: of two namespaces one was labeled, keeping its part-of
\* label and owner, and the unlabel patch failed; the other is as it was.
C29_Witness ==
    /\ pc = "done"
    /\ \E n, m \in Names :
           /\ n # m
           /\ pre[m].exists
           /\ store[m] = pre[m]
           /\ \E i \in 1..Len(evals) :
                  /\ evals[i].name = n
                  /\ Done(evals[i].reqs, "patch-label", n)
                  /\ ~ Done(evals[i].reqs, "patch-unlabel", n)
           /\ store[n] = [pre[n] EXCEPT !.label = graceDate]

\* C30: in test mode the answer to UserExists is membership of the email
\* in cfg.TestUsers, whatever the directory service holds, and the service
\* is never asked: an evaluation that gets as far as the user check takes
\* the existing-user or unlabel branch exactly when cfg.TestUsers lists
\* the owner, and no evaluation records an answer of the service.
C30_SimulatedDirectory ==
    cfg.TestMode =>
        \A i \in 1..Len(evals) :
            LET e == evals[i]
            IN /\ e.lookup \in {"none", "unasked"}
               /\ e.lookup = "unasked" =>
                      (e.branch \in {"existing-user", "unlabel"}
                           <=> e.obj.owner.email \in cfg.TestUsers)

\* C30 witness: the directory service no longer holds the owner, and test
\* mode still finds the owner in cfg.TestUsers.
C30_Witness ==
    /\ cfg.TestMode
    /\ \E i \in 1..Len(evals) :
           /\ evals[i].lookup = "unasked"
           /\ evals[i].obj.owner.email \in cfg.TestUsers
           /\ evals[i].obj.owner.email \notin directory
           /\ evals[i].branch \in {"existing-user", "unlabel"}

Deletes(p, n) ==
    /\ procs'[p] # procs[p]
    /\ store[n].exists
    /\ ~ store'[n].exists

\* C32 (as stated): with two runs overlapping and the directory changing
\* between queries, a namespace is deleted only while it carries a
\* delete-at label whose instant is before the now of the deleting run.
C32_OverlapDeletesLabeled ==
    [][\A p \in Procs, n \in Names :
           Deletes(p, n) =>
               /\ ~ ParseInLocation(store[n].label).err
               /\ ParseInLocation(store[n].label).t < procs[p].now]_vars

\* C32 (amended): ... a namespace is deleted only if it carried, when the
\* deleting run listed it for Phase 2, a delete-at label whose instant is
\* before the now of that run.
C32_OverlapDeletesListed ==
    [][\A p \in Procs, n \in Names :
           Deletes(p, n) =>
               /\ procs[p].pc = "loop2"
               /\ procs[p].items # <<>>
               /\ LET ns == Head(procs[p].items)
                  IN /\ ns.name = n
                     /\ ~ ParseInLocation(ns.obj.label).err
                     /\ ParseInLocation(ns.obj.label).t < procs[p].now]_vars

\* C32 witness: a run deleted a namespace whose label the other run had
\* removed after the listing.
C32_Witness ==
    \E p \in Procs :
        \E d \in procs[p].dels : d.label = NoLabel /\ ~ store[d.name].exists

\* C33 (as stated): a delete-at label a namespace carried when a run
\* stopped is, when any later run has stopped, still the label it carries,
\* unless it then carries none or is gone.
C33_MarkerStable ==
    pc \in Stopped =>
        \A n \in Names :
            \A v \in prev.ends[n] :
                \/ ~ store[n].exists
                \/ store[n].label = NoLabel
                \/ store[n].label = v

\* C33 (amended): ... when any later run has stopped, up to the first that
\* leaves the namespace without a delete-at label, ...: the engine never
\* replaces a label by a different one.
C33_PendingMarkerStable ==
    pc \in Stopped =>
        \A n \in Names :
            \A v \in prev.pending[n] :
                \/ ~ store[n].exists
                \/ store[n].label = NoLabel
                \/ store[n].label = v

\* C33 witness: the label of two runs ago is still there after the last
\* run.
C33_Witness ==
    /\ pc = "done"
    /\ runs = MaxRuns + 1
    /\ \E n \in Names :
           /\ prev.ends[n] # {}
           /\ prev.ends[n] = {store[n].label}
           /\ prev.pending[n] = prev.ends[n]
           /\ pre[n].label = store[n].label

\* The Cleaner call that decides the counter of evaluation e returned an
\* error: LabelNamespace in the label branch, RemoveLabel in the unlabel
\* branch, DeleteNamespace in the delete branch.
CallFailed(e) ==
    \/ e.branch = "label" /\ \E k \in 1..Len(e.reqs) :
           e.reqs[k].verb = "patch-label" /\ ~ e.reqs[k].ok
    \/ e.branch = "unlabel" /\ ~ AllOk(e.reqs)
    \/ e.branch = "delete" /\ ~ AllOk(e.reqs)

\* The counter of the branches that end in a Cleaner call.
Counter(branch) ==
    CASE branch = "label" -> "Labeled"
      [] branch = "unlabel" -> "LabelsRemoved"
      [] branch = "delete" -> "Deleted"
      [] OTHER -> "none"

\* C34: every evaluation adds one to TotalNamespaces; it adds one to
\* Labeled, LabelsRemoved or Deleted exactly when it took that branch and
\* the Cleaner call of the branch returned no error, and an evaluation
\* whose call failed changes no counter but TotalNamespaces.
C34_CountSuccessesOnly ==
    [][Len(evals') = Len(evals) + 1 =>
           LET e == evals'[Len(evals')]
           IN /\ stats'.TotalNamespaces = stats.TotalNamespaces + 1
              /\ \A c \in {"Labeled", "LabelsRemoved", "Deleted"} :
                     stats'[c] = stats[c] +
                         (IF Counter(e.branch) = c /\ ~ CallFailed(e)
                          THEN 1 ELSE 0)
              /\ CallFailed(e) =>
                     stats' = [stats EXCEPT !.TotalNamespaces = @ + 1]]_vars

\* C34 witness: a Delete failed, and the run counted the namespace in
\* TotalNamespaces only.
C34_Witness ==
    /\ pc = "done"
    /\ \E i \in 1..Len(evals) :
           evals[i].branch = "delete" /\ CallFailed(evals[i])
    /\ stats.TotalNamespaces >= 1
    /\ stats = [ZeroStats EXCEPT !.TotalNamespaces = stats.TotalNamespaces]

\* The counters of the outcomes, TotalNamespaces apart.
Outcomes ==
    {"Labeled", "Deleted", "LabelsRemoved", "InvalidLabels",
     "SkippedMissingOwner", "SkippedInvalidDomain", "SkippedExistingUser"}

\* The sum of the outcome counters of s.
OutcomeSum(s) ==
    s.Labeled + s.Deleted + s.LabelsRemoved + s.InvalidLabels
        + s.SkippedMissingOwner + s.SkippedInvalidDomain
        + s.SkippedExistingUser

\* C35: at every moment of a run, and so at its end, no counter is
\* negative, TotalNamespaces is the number of evaluations made and is at
\* least the sum of the other counters; and each evaluation adds one to
\* TotalNamespaces and one to at most one other counter, taking nothing
\* from any.
C35_StatsBound ==
    /\ [](/\ \A c \in Outcomes : stats[c] >= 0
          /\ stats.TotalNamespaces = Len(evals)
          /\ stats.TotalNamespaces >= OutcomeSum(stats))
    /\ [][Len(evals') = Len(evals) + 1 =>
              /\ stats'.TotalNamespaces = stats.TotalNamespaces + 1
              /\ \A c \in Outcomes : stats'[c] \in {stats[c], stats[c] + 1}
              /\ Cardinality({c \in Outcomes : stats'[c] # stats[c]}) <= 1]_vars

\* C35 witness: a run of two evaluations has returned with one outcome
\* counted.
C35_Witness ==
    /\ pc = "done"
    /\ stats.TotalNamespaces = 2
    /\ OutcomeSum(stats) = 1

\* C36 (as stated): in the first processNamespaces every delete-at value
\* its first loop writes is parsed without error by its second loop, and a
\* namespace it labeled is gone after a later run that was no dry run, met
\* no failure, did not find the owner and ran after the labeled instant.
C36_LegacyRoundTrip ==
    legacy.labeled =>
        /\ legacy.value # NoValue =>
               ~ Parse(RFC3339,
                       [legacy.value EXCEPT !.text =
                            Replace(Replace(@, "_", "T", 1), "_", ":", 0 - 1)]).err
        /\ (/\ legacy.pc = "idle"
            /\ legacy.clean
            /\ ~ legacy.known
            /\ legacy.value # NoValue
            /\ legacy.now > legacy.value.wall * TicksPerSec) =>
               ~ legacy.exists

====
